---- MODULE Spec2Model ----
(***************************************************************************)
(* bedanno: annotation of BED query regions with the best overlapping      *)
(* GTF/GFF feature.  The model follows src/src/lib.rs: Interval,           *)
(* GffLine, Annotation, the sorted_list container as lib.rs uses it,       *)
(* find_overlaps, resolve_all_overlaps and the contig loop of run.         *)
(***************************************************************************)
EXTENDS Integers, Sequences, FiniteSets, TLC

(* ------------------------------------------------------------------ *)
(* Bounds of the model                                                 *)
(* ------------------------------------------------------------------ *)

\* largest coordinate of a query or target interval
MaxCoord == 3

\* largest number of query records of a one-contig query stream
MaxQ == 3

\* largest number of target records of a one-contig target stream
MaxT == 2

(* ------------------------------------------------------------------ *)
(* Option values: <<>> is None, <<x>> is Some(x)                       *)
(* ------------------------------------------------------------------ *)

None == <<>>

Some(x) == <<x>>

IsSome(o) == Len(o) = 1

(* ------------------------------------------------------------------ *)
(* Interval                                                            *)
(* ------------------------------------------------------------------ *)

Interval(s, e) == [start |-> s, end |-> e]

\* the mutation of overlapping whose second case has no upper bound
overlapping_Unbounded(self, other) ==
    \/ (other.start <= self.start /\ self.start < other.end)
    \/ self.start <= other.start

\* Interval::overlapping(&self, other)
overlapping(self, other) ==
    \/ (other.start <= self.start /\ self.start < other.end)
    \/ (self.start <= other.start /\ other.start <= self.end)

\* derive(PartialOrd, Ord) on Interval: lexicographic on (start, end)
IntervalLess(a, b) ==
    \/ a.start < b.start
    \/ (a.start = b.start /\ a.end < b.end)

(* ------------------------------------------------------------------ *)
(* SortedList<K, V> as lib.rs uses it: a list of (key, value) tuples   *)
(* ordered by key, the values of one key in insertion order; a tuple   *)
(* already in the list is not inserted again.                          *)
(* ------------------------------------------------------------------ *)

SLNew == <<>>

SLLen(list) == Len(list)

\* keys(): the key of every tuple, in order
SLKeys(list) == [i \in 1..Len(list) |-> list[i].key]

\* values(): the value of every tuple, in order
SLValues(list) == [i \in 1..Len(list) |-> list[i].value]

\* the positions a binary search for key may report: any tuple with that
\* key, or 0 when there is none
SLFound(list, key) ==
    LET hits == {i \in 1..Len(list) : list[i].key = key}
    IN  IF hits = {} THEN {0} ELSE hits

\* insert(key, value), the binary search having reported found_at
SLInsert(list, key, value, found_at) ==
    LET n == Len(list)
        tup == [key |-> key, value |-> value]
        InsertAt(p) == SubSeq(list, 1, p - 1) \o <<tup>> \o SubSeq(list, p, n)
    IN  IF found_at = 0
        THEN InsertAt(Cardinality({i \in 1..n : IntervalLess(list[i].key, key)}) + 1)
        ELSE LET past == {i \in found_at..n : list[i].key # key}
                 stop == IF past = {} THEN n + 1
                         ELSE CHOOSE i \in past : \A j \in past : i <= j
             IN  IF \E i \in found_at..(stop - 1) : list[i].value = value
                 THEN list
                 ELSE InsertAt(stop)

(* ------------------------------------------------------------------ *)
(* GffLine and Annotation                                              *)
(* ------------------------------------------------------------------ *)

\* GffLine::from_line: tokens 0, 3, 4, 2 and 8 of a target line; the raw
\* start is 1-based and inclusive
from_line(line) ==
    [contig       |-> line.contig,
     interval     |-> Interval(line.start - 1, line.end),
     feature_type |-> line.feature_type,
     annotation   |-> line.annotation]

\* an annotation column is the sequence of its ';'-separated fragments,
\* each fragment the sequence of its tokens split at '=' or ' ';
\* the empty fragments are filtered out
Fragments(annotation) == SelectSeq(annotation, LAMBDA f : f # <<>>)

\* kv.next().expect(attr) fails on a fragment with no separator
Malformed(annotation) ==
    \E i \in 1..Len(Fragments(annotation)) : Len(Fragments(annotation)[i]) < 2

\* trim_matches('"') on the values the model uses
TrimQuotes(v) ==
    CASE v = "\"NA\"" -> "NA"
      [] v = "\"1\""  -> "1"
      [] OTHER        -> v

\* attributes.get(key) after all the inserts: the last fragment wins
AttrGet(annotation, key) ==
    LET fr == Fragments(annotation)
        at == {i \in 1..Len(fr) : fr[i][1] = key}
    IN  IF at = {} THEN None
        ELSE Some(TrimQuotes(fr[CHOOSE i \in at : \A j \in at : j <= i][2]))

\* x.parse::<u8>().unwrap_or(255) on the values the model uses
ParseLevel(v) ==
    CASE v = "1" -> 1
      [] v = "2" -> 2
      [] v = "3" -> 3
      [] OTHER   -> 255

\* the mutation of from_gff_line that leaves an absent
\* transcript_support_level empty
from_gff_line_TslEmpty(line) ==
    LET tag   == AttrGet(line.annotation, "tag")
        tsl   == AttrGet(line.annotation, "transcript_support_level")
        level == AttrGet(line.annotation, "level")
        tt    == AttrGet(line.annotation, "transcript_type")
    IN  [interval        |-> line.interval,
         gene_name       |-> AttrGet(line.annotation, "gene_name"),
         feature_type    |-> line.feature_type,
         mane            |-> IF IsSome(tag) THEN tag[1] = "MANE_Select" ELSE FALSE,
         tsl             |-> IF IsSome(tsl) THEN tsl[1] ELSE "",
         level           |-> IF IsSome(level) THEN ParseLevel(level[1]) ELSE 255,
         transcript_type |-> IF IsSome(tt) THEN tt[1] ELSE ""]

\* Annotation::from_gff_line, for a line whose annotation is well formed
from_gff_line(line) ==
    LET tag   == AttrGet(line.annotation, "tag")
        tsl   == AttrGet(line.annotation, "transcript_support_level")
        level == AttrGet(line.annotation, "level")
        tt    == AttrGet(line.annotation, "transcript_type")
    IN  [interval        |-> line.interval,
         gene_name       |-> AttrGet(line.annotation, "gene_name"),
         feature_type    |-> line.feature_type,
         mane            |-> IF IsSome(tag) THEN tag[1] = "MANE_Select" ELSE FALSE,
         tsl             |-> IF IsSome(tsl) THEN tsl[1] ELSE "NA",
         level           |-> IF IsSome(level) THEN ParseLevel(level[1]) ELSE 255,
         transcript_type |-> IF IsSome(tt) THEN tt[1] ELSE ""]

(* ------------------------------------------------------------------ *)
(* find_overlaps: the sweep over one contig's queries and targets      *)
(* ------------------------------------------------------------------ *)

\* trg.or_else(|| targets.next()): the buffered target, else the next one
\* of the iterator, which has yielded `it` targets so far
NextRec(tv, it, trg) ==
    IF IsSome(trg) THEN [rec |-> trg, it |-> it]
    ELSE IF it < Len(tv) THEN [rec |-> Some(tv[it + 1]), it |-> it + 1]
    ELSE [rec |-> None, it |-> it]

\* the mutation of SkipBefore that compares with the end of the query
RECURSIVE SkipBefore_PastEnd(_, _, _, _)
SkipBefore_PastEnd(tv, it, trg, q) ==
    LET nx == NextRec(tv, it, trg)
    IN  IF ~IsSome(nx.rec) THEN [it |-> nx.it, trg |-> trg, skipped |-> <<>>]
        ELSE IF nx.rec[1].interval.end >= q.end
             THEN [it |-> nx.it, trg |-> nx.rec, skipped |-> <<>>]
             ELSE LET rest == SkipBefore_PastEnd(tv, nx.it, None, q)
                  IN  [it |-> rest.it, trg |-> rest.trg,
                       skipped |-> <<nx.rec[1]>> \o rest.skipped]

\* the first loop: skip targets that are before the query; `skipped` lists
\* the targets the loop has dropped (`trg = None`), in the order it met them
RECURSIVE SkipBefore(_, _, _, _)
SkipBefore(tv, it, trg, q) ==
    LET nx == NextRec(tv, it, trg)
    IN  IF ~IsSome(nx.rec) THEN [it |-> nx.it, trg |-> trg, skipped |-> <<>>]
        ELSE IF nx.rec[1].interval.end >= q.start
             THEN [it |-> nx.it, trg |-> nx.rec, skipped |-> <<>>]
             ELSE LET rest == SkipBefore(tv, nx.it, None, q)
                  IN  [it |-> rest.it, trg |-> rest.trg,
                       skipped |-> <<nx.rec[1]>> \o rest.skipped]

\* the second loop: take overlapping targets, stop at the first other one
RECURSIVE TakeOverlapping(_, _, _, _, _)
TakeOverlapping(tv, it, trg, q, new_overlaps) ==
    LET nx == NextRec(tv, it, trg)
    IN  IF ~IsSome(nx.rec) THEN [it |-> nx.it, trg |-> trg, new_overlaps |-> new_overlaps]
        ELSE IF overlapping(q, nx.rec[1].interval)
             THEN TakeOverlapping(tv, nx.it, None, q, Append(new_overlaps, nx.rec[1]))
             ELSE [it |-> nx.it, trg |-> nx.rec, new_overlaps |-> new_overlaps]

\* the mutation of SkipWhileNotOverlapping that keeps the whole window
SkipWhileNotOverlapping_Keeps(prev_overlaps, q) == prev_overlaps

\* prev_overlaps.iter().skip_while(|rec| !q.overlapping(&rec.interval))
RECURSIVE SkipWhileNotOverlapping(_, _)
SkipWhileNotOverlapping(prev_overlaps, q) ==
    IF prev_overlaps = <<>> THEN <<>>
    ELSE IF ~overlapping(q, Head(prev_overlaps).interval)
         THEN SkipWhileNotOverlapping(Tail(prev_overlaps), q)
         ELSE prev_overlaps

\* the mutation of SweepQuery that starts every query at the first target
SweepQuery_Rewinds(tv, st, q) ==
    LET sk == SkipBefore(tv, 0, None, q)
        tk == TakeOverlapping(tv, sk.it, sk.trg, q, <<>>)
    IN  [it            |-> tk.it,
         trg           |-> tk.trg,
         prev_overlaps |-> tk.new_overlaps,
         result        |-> Append(st.result,
                              SkipWhileNotOverlapping(st.prev_overlaps, q)
                                  \o tk.new_overlaps),
         skipped       |-> Append(st.skipped, sk.skipped),
         taken         |-> Append(st.taken, tk.new_overlaps)]

\* one iteration of `for q in queries.keys()`; `skipped` and `taken` record,
\* per query, the targets the first loop dropped and the second loop pushed
SweepQuery(tv, st, q) ==
    LET sk == SkipBefore(tv, st.it, st.trg, q)
        tk == TakeOverlapping(tv, sk.it, sk.trg, q, <<>>)
    IN  [it            |-> tk.it,
         trg           |-> tk.trg,
         prev_overlaps |-> tk.new_overlaps,
         result        |-> Append(st.result,
                              SkipWhileNotOverlapping(st.prev_overlaps, q)
                                  \o tk.new_overlaps),
         skipped       |-> Append(st.skipped, sk.skipped),
         taken         |-> Append(st.taken, tk.new_overlaps)]

RECURSIVE SweepFrom(_, _, _, _)
SweepFrom(qk, tv, st, i) ==
    IF i > Len(qk) THEN st
    ELSE SweepFrom(qk, tv, SweepQuery(tv, st, qk[i]), i + 1)

\* the state of the sweep after the last query
SweepAll(queries, targets) ==
    SweepFrom(SLKeys(queries), SLValues(targets),
              [it |-> 0, trg |-> None, prev_overlaps |-> <<>>, result |-> <<>>,
               skipped |-> <<>>, taken |-> <<>>],
              1)

\* find_overlaps(queries, targets): one list of targets per query
find_overlaps(queries, targets) == SweepAll(queries, targets).result

(* ------------------------------------------------------------------ *)
(* resolve_all_overlaps: the best target of each query                 *)
(* ------------------------------------------------------------------ *)

\* feature_type_rank.get(..).unwrap_or(&255)
feature_type_rank(ft) ==
    CASE ft = "CDS"         -> 0
      [] ft = "stop_codon"  -> 1
      [] ft = "start_codon" -> 2
      [] ft = "UTR"         -> 3
      [] ft = "exon"        -> 4
      [] ft = "transcript"  -> 5
      [] ft = "gene"        -> 6
      [] OTHER              -> 255

\* tsl_rank.get(..).unwrap_or(&255)
tsl_rank(tsl) ==
    CASE tsl = "1"  -> 0
      [] tsl = "2"  -> 1
      [] tsl = "3"  -> 2
      [] tsl = "4"  -> 3
      [] tsl = "5"  -> 4
      [] tsl = "NA" -> 5
      [] OTHER      -> 255

\* the mutation of Extent that always measures from the start of the query
Extent_FromStart(q, anno) == anno.interval.end - q.start

\* the one-sided extent of the sort key; it is computed after the
\* assertion, so on overlapping intervals only
Extent(q, anno) ==
    IF q.start < anno.interval.start
    THEN q.end - anno.interval.start
    ELSE anno.interval.end - q.start

\* the mutation of RankKey that ranks the feature type after the MANE flag
RankKey_ManeFirst(q, anno) ==
    <<IF anno.mane THEN 0 ELSE 255,
      feature_type_rank(anno.feature_type),
      tsl_rank(anno.tsl),
      anno.level,
      IF anno.transcript_type # "protein_coding" THEN 1 ELSE 0,
      Extent(q, anno)>>

\* the key of sort_by_key
RankKey(q, anno) ==
    <<feature_type_rank(anno.feature_type),
      IF anno.mane THEN 0 ELSE 255,
      tsl_rank(anno.tsl),
      anno.level,
      IF anno.transcript_type # "protein_coding" THEN 1 ELSE 0,
      Extent(q, anno)>>

\* the order of tuples: lexicographic
RECURSIVE KeyLess(_, _)
KeyLess(a, b) ==
    IF a = <<>> THEN FALSE
    ELSE IF Head(a) # Head(b) THEN Head(a) < Head(b)
    ELSE KeyLess(Tail(a), Tail(b))

\* sort_by_key is a stable sort: an element goes after the ones whose key
\* is not greater than its own
RECURSIVE SortByKey(_, _)
SortByKey(annotations, q) ==
    IF annotations = <<>> THEN <<>>
    ELSE LET n      == Len(annotations)
             sorted == SortByKey(SubSeq(annotations, 1, n - 1), q)
             x      == annotations[n]
             before == {i \in 1..Len(sorted) : ~KeyLess(RankKey(q, x), RankKey(q, sorted[i]))}
             p      == Cardinality(before)
         IN  SubSeq(sorted, 1, p) \o <<x>> \o SubSeq(sorted, p + 1, Len(sorted))

\* the closure of resolve_all_overlaps panics on a target whose annotation
\* is malformed, and in the sort key (which a sort of two or more elements
\* evaluates on every element) on a target that does not overlap the query
ResolvePanics(q, gfflines) ==
    \/ \E i \in 1..Len(gfflines) : Malformed(gfflines[i].annotation)
    \/ /\ Len(gfflines) >= 2
       /\ \E i \in 1..Len(gfflines) : ~overlapping(q, gfflines[i].interval)

\* annotations.first().cloned() after the sort
ResolveOne(q, gfflines) ==
    IF gfflines = <<>> THEN None
    ELSE IF Len(gfflines) = 1 THEN Some(from_gff_line(gfflines[1]))
    ELSE Some(Head(SortByKey([i \in 1..Len(gfflines) |-> from_gff_line(gfflines[i])], q)))

\* resolve_all_overlaps(queries, gfflines)
resolve_all_overlaps(queries, gfflines) ==
    LET qk    == SLKeys(queries)
        panic == \E i \in 1..Len(qk) : ResolvePanics(qk[i], gfflines[i])
    IN  [panic       |-> panic,
         annotations |-> IF panic THEN <<>>
                         ELSE [i \in 1..Len(qk) |-> ResolveOne(qk[i], gfflines[i])]]

(* ------------------------------------------------------------------ *)
(* The input streams a run is given                                    *)
(* ------------------------------------------------------------------ *)

Contigs == {"chr1", "chr2", "chr3"}

\* the non-empty half-open intervals over the coordinates
Spans ==
    {iv \in {Interval(s, e) : s \in 0..MaxCoord, e \in 0..MaxCoord} :
        iv.start < iv.end}

SeqsUpTo(S, n) == UNION {[1..k -> S] : k \in 0..n}

SetsUpTo(S, n) == {T \in SUBSET S : Cardinality(T) <= n}

\* the intervals of a set in ascending order
RECURSIVE Ascending(_)
Ascending(S) ==
    IF S = {} THEN <<>>
    ELSE LET m == CHOOSE x \in S : \A y \in S : y = x \/ IntervalLess(x, y)
         IN  <<m>> \o Ascending(S \ {m})

\* the gene name of the i-th record of a target stream
GeneName(i) == <<"A", "B", "C", "D", "E", "F">>[i]

LevelText(i) == <<"1", "2", "3", "4", "5", "6">>[i]

\* a BED record
QueryRecord(c, iv) == [chrom |-> c, start |-> iv.start, end |-> iv.end]

\* a GTF/GFF line: the start column is 1-based and inclusive
TargetLine(c, iv, ft, anno) ==
    [contig |-> c, start |-> iv.start + 1, end |-> iv.end,
     feature_type |-> ft, annotation |-> anno]

\* annotation columns, in the key=value and the key "value" dialect
AnnoName(i) == << <<"gene_name", GeneName(i)>>, <<>> >>

AnnoLevel(i) == << <<"gene_name", GeneName(i)>>, <<"level", LevelText(i)>>, <<>> >>

AnnoKinds ==
    {"name", "level1", "level2", "tslNA", "tsl1level2", "mane", "maneBasic",
     "coding", "badLevel", "noSeparator"}

Anno(kind, i) ==
    LET gn == <<"gene_name", GeneName(i)>>
    IN  CASE kind = "name"        -> <<gn, <<>> >>
          [] kind = "level1"      -> <<gn, <<"level", "1">>, <<>> >>
          [] kind = "level2"      -> << <<"level", "2">>, gn >>
          [] kind = "tslNA"       -> <<gn, <<"transcript_support_level", "\"NA\"">> >>
          [] kind = "tsl1level2"  -> <<gn, <<"level", "2">>, <<"transcript_support_level", "\"1\"">> >>
          [] kind = "mane"        -> <<gn, <<"tag", "basic">>, <<"tag", "MANE_Select">> >>
          [] kind = "maneBasic"   -> <<gn, <<"tag", "MANE_Select">>, <<"tag", "basic">> >>
          [] kind = "coding"      -> <<gn, <<"transcript_type", "protein_coding">> >>
          [] kind = "badLevel"    -> << <<"level", "x">> >>
          [] kind = "noSeparator" -> <<gn, <<"level">> >>

FeatureTypes ==
    {"CDS", "stop_codon", "start_codon", "UTR", "exon", "transcript", "gene",
     "Selenocysteine"}

\* the targets of the ranking inputs: every feature type with two of the
\* annotations, and CDS and gene with all of them, on three intervals that
\* overlap the query [1, 2)
RankShapes ==
    {[ft |-> ft, kind |-> k, iv |-> iv] :
        ft \in FeatureTypes, k \in {"name", "level1"},
        iv \in {Interval(0, 2), Interval(1, 3), Interval(2, 3)}}
    \cup
    {[ft |-> ft, kind |-> k, iv |-> iv] :
        ft \in {"CDS", "gene"}, k \in AnnoKinds,
        iv \in {Interval(0, 2), Interval(1, 3), Interval(2, 3)}}

(* ------------------------------------------------------------------ *)
(* run: the state of the contig loop                                   *)
(* ------------------------------------------------------------------ *)

VARIABLES
    qstream,            \* the records of the query stream
    tstream,            \* the lines of the target stream
    qpos,               \* records qreader has yielded
    tpos,               \* lines treader has yielded
    buf_qry,            \* Option<(i, rec)>
    buf_trg,            \* Option<(i, line)>
    seen_qry_contigs,
    next_qry_contig,
    targets_buffer,     \* contig -> SortedList<Interval, GffLine>
    cur_contig,
    cur_queries,        \* SortedList<Interval, ()>
    cur_targets,        \* res, then cur_targets
    pc,                 \* "queries", "targets", "annotate" or "done"
    outcome,            \* "running", "ok", "err" or "panic"
    err,                \* Option<(i, contig)> of the error returned
    output              \* the records written

vars == <<qstream, tstream, qpos, tpos, buf_qry, buf_trg, seen_qry_contigs,
          next_qry_contig, targets_buffer, cur_contig, cur_queries,
          cur_targets, pc, outcome, err, output>>

\* one contig, queries and targets in ascending order, every target a gene
\* with a name and a level that grows along the stream
SweepInputs ==
    \E Q \in SetsUpTo(Spans, MaxQ), T \in SetsUpTo(Spans, MaxT) :
        /\ qstream = [i \in 1..Cardinality(Q) |-> QueryRecord("chr1", Ascending(Q)[i])]
        /\ tstream = [i \in 1..Cardinality(T) |->
                         TargetLine("chr1", Ascending(T)[i], "gene", AnnoLevel(i))]

\* one contig, the queries in any order and with repeats
OrderInputs ==
    \E ivs \in SeqsUpTo(Spans, MaxQ) :
        /\ qstream = [i \in 1..Len(ivs) |-> QueryRecord("chr1", ivs[i])]
        /\ tstream \in {<<>>, <<TargetLine("chr1", Interval(0, MaxCoord), "gene", AnnoName(1))>>}

\* several contigs in any order in both streams, at most three target
\* lines, one interval
ContigInputs ==
    \E qc \in SeqsUpTo(Contigs, MaxQ + 1), tc \in SeqsUpTo(Contigs, 3) :
        /\ qstream = [i \in 1..Len(qc) |-> QueryRecord(qc[i], Interval(0, 1))]
        /\ tstream = [i \in 1..Len(tc) |->
                         TargetLine(tc[i], Interval(0, 1), "gene", AnnoName(i))]

\* one contig, one query, one or two targets in any order
RankInputs ==
    \E sh \in [1..1 -> RankShapes] \cup [1..2 -> RankShapes] :
        /\ qstream = <<QueryRecord("chr1", Interval(1, 2))>>
        /\ tstream = [i \in 1..Len(sh) |->
                         TargetLine("chr1", sh[i].iv, sh[i].ft, Anno(sh[i].kind, i))]

\* a block of at most two ascending queries on chr1 with at most two
\* targets, followed by a record of chr2 and possibly one of chr1 again
TailInputs ==
    \E Q \in SetsUpTo(Spans, 2), T \in SetsUpTo(Spans, 2),
       tail \in {<<"chr2">>, <<"chr2", "chr1">>} :
        /\ qstream = [i \in 1..Cardinality(Q) |-> QueryRecord("chr1", Ascending(Q)[i])]
                        \o [i \in 1..Len(tail) |-> QueryRecord(tail[i], Interval(0, 1))]
        /\ tstream = [i \in 1..Cardinality(T) |->
                         TargetLine("chr1", Ascending(T)[i], "gene", AnnoName(i))]

\* the query [400, 500) between the targets 1-5 and 601-700 of its contig,
\* alone, after a query that the first target overlaps, or before a query
\* that the last target overlaps; between the two targets there may be one
\* that ends before the query and one that ends where the query starts; the
\* annotation of the last target may have a fragment with no separator
GapInputs ==
    \E first \in {<<>>, <<QueryRecord("chr1", Interval(2, 4))>>},
       last \in {<<>>, <<QueryRecord("chr1", Interval(450, 650))>>},
       middle \in {<<>>, <<Interval(10, 20)>>, <<Interval(10, 400)>>,
                   <<Interval(10, 20), Interval(10, 400)>>},
       kind \in {"name", "noSeparator"} :
        /\ qstream = first \o <<QueryRecord("chr1", Interval(400, 500))>> \o last
        /\ tstream =
              LET ivs == <<Interval(0, 5)>> \o middle \o <<Interval(600, 700)>>
              IN  [i \in 1..Len(ivs) |->
                      TargetLine("chr1", ivs[i], "gene",
                                 IF i = Len(ivs) THEN Anno(kind, i) ELSE AnnoName(i))]

\* the intervals over the coordinates with start <= end
Points ==
    {iv \in {Interval(s, e) : s \in 0..MaxCoord, e \in 0..MaxCoord} :
        iv.start <= iv.end}

\* one query and at most two targets, empty intervals among them
PointInputs ==
    \E q \in Points, ts \in SeqsUpTo(Points, 2) :
        /\ qstream = <<QueryRecord("chr1", q)>>
        /\ tstream = [i \in 1..Len(ts) |-> TargetLine("chr1", ts[i], "gene", AnnoName(i))]

Init ==
    /\ (SweepInputs \/ OrderInputs \/ ContigInputs \/ RankInputs \/ TailInputs
          \/ GapInputs \/ PointInputs)
    /\ qpos = 0
    /\ tpos = 0
    /\ buf_qry = None
    /\ buf_trg = None
    /\ seen_qry_contigs = {}
    /\ next_qry_contig = ""
    /\ targets_buffer = [c \in {} |-> SLNew]
    /\ cur_contig = ""
    /\ cur_queries = SLNew
    /\ cur_targets = SLNew
    /\ pc = "queries"
    /\ outcome = "running"
    /\ err = None
    /\ output = <<>>

(* ------------------------------------------------------------------ *)
(* run: collecting the queries of a contig                             *)
(* ------------------------------------------------------------------ *)

\* buf_qry.clone().or_else(|| qreader.next())
QryAvail == IsSome(buf_qry) \/ qpos < Len(qstream)

QryNext ==
    IF IsSome(buf_qry) THEN buf_qry[1]
    ELSE [i |-> qpos, rec |-> qstream[qpos + 1]]

QryPosAfter == IF IsSome(buf_qry) THEN qpos ELSE qpos + 1

\* cur_contig after `if cur_contig == "" { cur_contig = rec.chrom() }`
ContigOf(rec) == IF cur_contig = "" THEN rec.chrom ELSE cur_contig

\* the mutation of NoQueries that never ends the run
NoQueries_Never(queries) == FALSE

\* cur_queries.len() == 0
NoQueries(queries) == SLLen(queries) = 0

\* seen_qry_contigs.contains(rec.chrom())
AlreadySeen(seen, chrom) == chrom \in seen

\* the statements after the while loop of the queries
AfterQueries ==
    IF NoQueries(cur_queries)
    THEN pc' = "done" /\ outcome' = "ok"
    ELSE pc' = "targets" /\ outcome' = outcome

\* a record of the current contig: cur_queries.insert(interval, ())
QryInsert ==
    /\ pc = "queries"
    /\ QryAvail
    /\ QryNext.rec.chrom = ContigOf(QryNext.rec)
    /\ \E found_at \in SLFound(cur_queries, Interval(QryNext.rec.start, QryNext.rec.end)) :
          cur_queries' = SLInsert(cur_queries,
                                  Interval(QryNext.rec.start, QryNext.rec.end),
                                  "unit", found_at)
    /\ cur_contig' = ContigOf(QryNext.rec)
    /\ buf_qry' = None
    /\ qpos' = QryPosAfter
    /\ UNCHANGED <<qstream, tstream, tpos, buf_trg, seen_qry_contigs,
                   next_qry_contig, targets_buffer, cur_targets, pc, outcome,
                   err, output>>

\* a record of a contig already seen: return Err
QryOutOfOrder ==
    /\ pc = "queries"
    /\ QryAvail
    /\ QryNext.rec.chrom # ContigOf(QryNext.rec)
    /\ AlreadySeen(seen_qry_contigs, QryNext.rec.chrom)
    /\ err' = Some(<<QryNext.i, QryNext.rec.chrom>>)
    /\ outcome' = "err"
    /\ pc' = "done"
    /\ buf_qry' = None
    /\ qpos' = QryPosAfter
    /\ UNCHANGED <<qstream, tstream, tpos, buf_trg, seen_qry_contigs,
                   next_qry_contig, targets_buffer, cur_contig, cur_queries,
                   cur_targets, output>>

\* a record of a new contig: push it back and leave the loop
QryNewContig ==
    /\ pc = "queries"
    /\ QryAvail
    /\ QryNext.rec.chrom # ContigOf(QryNext.rec)
    /\ ~AlreadySeen(seen_qry_contigs, QryNext.rec.chrom)
    /\ seen_qry_contigs' = seen_qry_contigs \cup {cur_contig}
    /\ next_qry_contig' = QryNext.rec.chrom
    /\ buf_qry' = Some(QryNext)
    /\ qpos' = QryPosAfter
    /\ AfterQueries
    /\ UNCHANGED <<qstream, tstream, tpos, buf_trg, targets_buffer,
                   cur_contig, cur_queries, cur_targets, err, output>>

\* the query stream is exhausted
QryEnd ==
    /\ pc = "queries"
    /\ ~QryAvail
    /\ AfterQueries
    /\ UNCHANGED <<qstream, tstream, qpos, tpos, buf_qry, buf_trg,
                   seen_qry_contigs, next_qry_contig, targets_buffer,
                   cur_contig, cur_queries, cur_targets, err, output>>

(* ------------------------------------------------------------------ *)
(* run: collecting the targets of the contig                           *)
(* ------------------------------------------------------------------ *)

\* targets_buffer.contains_key(&cur_contig)
Buffered(buffer, contig) == contig \in DOMAIN buffer

\* buf_trg.clone().or_else(|| treader.next())
TrgAvail == IsSome(buf_trg) \/ tpos < Len(tstream)

TrgNext ==
    IF IsSome(buf_trg) THEN buf_trg[1]
    ELSE [i |-> tpos, line |-> tstream[tpos + 1]]

TrgPosAfter == IF IsSome(buf_trg) THEN tpos ELSE tpos + 1

\* the mutation of EntryOrNew that forgets the entry already buffered
EntryOrNew_Forgets(buffer, contig) == SLNew

\* targets_buffer.entry(contig).or_insert(SortedList::new())
EntryOrNew(buffer, contig) ==
    IF contig \in DOMAIN buffer THEN buffer[contig] ELSE SLNew

\* rec.contig != cur_contig && res.len() > 0
ScanFinished(rec, res) == rec.contig # cur_contig /\ SLLen(res) > 0

\* the mutation of TrgTake that leaves the entry in the buffer
TrgTake_KeepsEntry ==
    /\ pc = "targets"
    /\ Buffered(targets_buffer, cur_contig)
    /\ cur_targets' = targets_buffer[cur_contig]
    /\ pc' = "annotate"
    /\ UNCHANGED <<qstream, tstream, qpos, tpos, buf_qry, buf_trg,
                   seen_qry_contigs, next_qry_contig, targets_buffer,
                   cur_contig, cur_queries, outcome, err, output>>

\* the contig was recorded before: targets_buffer.remove(&cur_contig)
TrgTake ==
    /\ pc = "targets"
    /\ Buffered(targets_buffer, cur_contig)
    /\ cur_targets' = targets_buffer[cur_contig]
    /\ targets_buffer' = [c \in DOMAIN targets_buffer \ {cur_contig} |-> targets_buffer[c]]
    /\ pc' = "annotate"
    /\ UNCHANGED <<qstream, tstream, qpos, tpos, buf_qry, buf_trg,
                   seen_qry_contigs, next_qry_contig, cur_contig, cur_queries,
                   outcome, err, output>>

\* the mutation of TrgBreak that does not push the line back
TrgBreak_Drops ==
    /\ pc = "targets"
    /\ ~Buffered(targets_buffer, cur_contig)
    /\ TrgAvail
    /\ ScanFinished(from_line(TrgNext.line), cur_targets)
    /\ buf_trg' = None
    /\ tpos' = TrgPosAfter
    /\ pc' = "annotate"
    /\ UNCHANGED <<qstream, tstream, qpos, buf_qry, seen_qry_contigs,
                   next_qry_contig, targets_buffer, cur_contig, cur_queries,
                   cur_targets, outcome, err, output>>

\* a line of another contig after lines of this one: push it back, break
TrgBreak ==
    /\ pc = "targets"
    /\ ~Buffered(targets_buffer, cur_contig)
    /\ TrgAvail
    /\ ScanFinished(from_line(TrgNext.line), cur_targets)
    /\ buf_trg' = Some(TrgNext)
    /\ tpos' = TrgPosAfter
    /\ pc' = "annotate"
    /\ UNCHANGED <<qstream, tstream, qpos, buf_qry, seen_qry_contigs,
                   next_qry_contig, targets_buffer, cur_contig, cur_queries,
                   cur_targets, outcome, err, output>>

\* a line of another contig before any line of this one: buffer it
TrgBuffer ==
    /\ pc = "targets"
    /\ ~Buffered(targets_buffer, cur_contig)
    /\ TrgAvail
    /\ LET rec == from_line(TrgNext.line)
       IN  /\ ~ScanFinished(rec, cur_targets)
           /\ rec.contig # cur_contig
           /\ \E found_at \in SLFound(EntryOrNew(targets_buffer, rec.contig), rec.interval) :
                 targets_buffer' =
                     [c \in DOMAIN targets_buffer \cup {rec.contig} |->
                         IF c = rec.contig
                         THEN SLInsert(EntryOrNew(targets_buffer, rec.contig),
                                       rec.interval, rec, found_at)
                         ELSE targets_buffer[c]]
    /\ buf_trg' = None
    /\ tpos' = TrgPosAfter
    /\ UNCHANGED <<qstream, tstream, qpos, buf_qry, seen_qry_contigs,
                   next_qry_contig, cur_contig, cur_queries, cur_targets, pc,
                   outcome, err, output>>

\* a line of this contig: res.insert(rec.interval.clone(), rec)
TrgCollect ==
    /\ pc = "targets"
    /\ ~Buffered(targets_buffer, cur_contig)
    /\ TrgAvail
    /\ LET rec == from_line(TrgNext.line)
       IN  /\ rec.contig = cur_contig
           /\ \E found_at \in SLFound(cur_targets, rec.interval) :
                 cur_targets' = SLInsert(cur_targets, rec.interval, rec, found_at)
    /\ buf_trg' = None
    /\ tpos' = TrgPosAfter
    /\ UNCHANGED <<qstream, tstream, qpos, buf_qry, seen_qry_contigs,
                   next_qry_contig, targets_buffer, cur_contig, cur_queries,
                   pc, outcome, err, output>>

\* the target stream is exhausted
TrgEnd ==
    /\ pc = "targets"
    /\ ~Buffered(targets_buffer, cur_contig)
    /\ ~TrgAvail
    /\ pc' = "annotate"
    /\ UNCHANGED <<qstream, tstream, qpos, tpos, buf_qry, buf_trg,
                   seen_qry_contigs, next_qry_contig, targets_buffer,
                   cur_contig, cur_queries, cur_targets, outcome, err, output>>

(* ------------------------------------------------------------------ *)
(* run: sweep, ranking and output of the contig                        *)
(* ------------------------------------------------------------------ *)

\* anno.map_or(".", |x| x.gene_name.unwrap_or("."))
NameOf(anno) ==
    IF IsSome(anno) /\ IsSome(anno[1].gene_name) THEN anno[1].gene_name[1] ELSE "."

\* the records the for loop writes
Emit(contig, queries, annotations) ==
    [i \in 1..SLLen(queries) |->
        [chrom |-> contig,
         start |-> SLKeys(queries)[i].start,
         end   |-> SLKeys(queries)[i].end,
         name  |-> NameOf(annotations[i])]]

\* find_overlaps, resolve_all_overlaps and the writes, then the next
\* iteration of the contig loop; a failed assertion or expect ends the run
Annotate ==
    /\ pc = "annotate"
    /\ LET resolved == resolve_all_overlaps(cur_queries,
                                            find_overlaps(cur_queries, cur_targets))
       IN  IF resolved.panic
           THEN /\ outcome' = "panic"
                /\ pc' = "done"
                /\ UNCHANGED <<output, cur_contig, cur_queries, cur_targets>>
           ELSE /\ output' = output \o Emit(cur_contig, cur_queries, resolved.annotations)
                /\ cur_contig' = next_qry_contig
                /\ cur_queries' = SLNew
                /\ cur_targets' = SLNew
                /\ pc' = "queries"
                /\ outcome' = outcome
    /\ UNCHANGED <<qstream, tstream, qpos, tpos, buf_qry, buf_trg,
                   seen_qry_contigs, next_qry_contig, targets_buffer, err>>

Next ==
    \/ QryInsert
    \/ QryOutOfOrder
    \/ QryNewContig
    \/ QryEnd
    \/ TrgTake
    \/ TrgBreak
    \/ TrgBuffer
    \/ TrgCollect
    \/ TrgEnd
    \/ Annotate

Spec == Init /\ [][Next]_vars

\* the steps of the while loop of the queries and of the loop of the targets
QryStep == QryInsert \/ QryOutOfOrder \/ QryNewContig \/ QryEnd

TrgStep == TrgTake \/ TrgBreak \/ TrgBuffer \/ TrgCollect \/ TrgEnd

\* a step that leaves the phase "annotate"; Annotate is enabled in every
\* state of that phase and each of its steps is such a step
AnnotateStep == pc = "annotate" /\ pc' \in {"queries", "done"}

\* run is one sequential loop on one thread: while a step of the phase it
\* is in is possible, one is taken
FairSpec ==
    Spec /\ WF_vars(QryStep) /\ WF_vars(TrgStep) /\ WF_pc(AnnotateStep)

(* ------------------------------------------------------------------ *)
(* Notions the properties are stated with                              *)
(* ------------------------------------------------------------------ *)

\* the contig and coordinates of an output record
Coordinates(o) == [chrom |-> o.chrom, start |-> o.start, end |-> o.end]

\* all the records of the target stream that name contig c
TargetsOfContig(c) ==
    {from_line(tstream[i]) : i \in {j \in 1..Len(tstream) : tstream[j].contig = c}}

\* those of them that overlap the interval q
OverlappingTargets(c, q) ==
    {t \in TargetsOfContig(c) : overlapping(q, t.interval)}

\* every contig of the target stream forms one block
TargetBlocks ==
    \A i \in 1..Len(tstream) : \A k \in i..Len(tstream) : \A j \in i..k :
        tstream[i].contig = tstream[k].contig => tstream[j].contig = tstream[i].contig

\* the positions of the query stream whose contig occurred before and was
\* followed by a record of another contig
Repeats ==
    {k \in 1..Len(qstream) :
        \E i \in 1..k : \E j \in i..k :
            /\ qstream[i].chrom = qstream[k].chrom
            /\ qstream[j].chrom # qstream[k].chrom}

FirstRepeat == CHOOSE k \in Repeats : \A m \in Repeats : k <= m

\* the length of the prefix of the query stream that lies before the block
\* ending at position k
RECURSIVE BeforeBlock(_)
BeforeBlock(k) ==
    IF k <= 1 THEN 0
    ELSE IF qstream[k - 1].chrom = qstream[k].chrom THEN BeforeBlock(k - 1)
    ELSE k - 1

\* the lists the sweep hands to the ranking for the current contig
CurrentOverlaps == find_overlaps(cur_queries, cur_targets)

(* ------------------------------------------------------------------ *)
(* C1 .. C10                                                           *)
(* ------------------------------------------------------------------ *)

\* C1: a run that ends without error has written one record per input query
\* record, with the same contig, start and end, in the order of the query
\* stream (no reordering, no deduplication).
C1_OneRecordPerQueryInOrder ==
    (pc = "done" /\ outcome = "ok") =>
        [i \in 1..Len(output) |-> Coordinates(output[i])]
            = [i \in 1..Len(qstream) |-> Coordinates(qstream[i])]

\* C2: every target in a list that find_overlaps returns for a query
\* overlaps that query, so the assertion in the ranking key never fails.
C2_SweepListsOverlap ==
    (pc = "annotate") =>
        \A i \in 1..Len(CurrentOverlaps) : \A j \in 1..Len(CurrentOverlaps[i]) :
            overlapping(SLKeys(cur_queries)[i], CurrentOverlaps[i][j].interval)

\* C3: the name written for a query is the gene name (or ".") of a target
\* that is first in the six-key rank order among all the targets of the
\* contig that overlap the query, and "." when there is none.
C3_BestOfAllOverlapping ==
    \A n \in 1..Len(output) :
        LET q  == Interval(output[n].start, output[n].end)
            ov == OverlappingTargets(output[n].chrom, q)
        IN  (\A t \in ov : ~Malformed(t.annotation)) =>
                IF ov = {} THEN output[n].name = "."
                ELSE \E t \in ov :
                        /\ \A u \in ov : ~KeyLess(RankKey(q, from_gff_line(u)),
                                                  RankKey(q, from_gff_line(t)))
                        /\ output[n].name = NameOf(Some(from_gff_line(t)))

\* C4: when the contigs of the target stream form blocks, the target set
\* handed to the sweep for a query contig is exactly the set of the records
\* of the target stream that name the contig, none of them held twice.
C4_TargetsOfContigComplete ==
    (pc = "annotate" /\ TargetBlocks) =>
        /\ {cur_targets[i].value : i \in 1..Len(cur_targets)} = TargetsOfContig(cur_contig)
        /\ Len(cur_targets)
              <= Cardinality({i \in 1..Len(tstream) : tstream[i].contig = cur_contig})

\* C4, its case: the targets of the contig being served were read from the
\* stream while an earlier query contig was being served.
C4_Witness ==
    /\ pc = "annotate"
    /\ TargetBlocks
    /\ output # <<>>
    /\ cur_targets # <<>>
    /\ tstream[1].contig = cur_contig
    /\ buf_trg # None

\* C5: a query stream in which a contig occurs again after another contig
\* followed its block ends in the out-of-order error that names the contig
\* and the record; a stream without such a repeat never ends in that error.
C5_OutOfOrderDetected ==
    (pc = "done") =>
        IF Repeats # {}
        THEN /\ outcome = "err"
             /\ err = Some(<<FirstRepeat - 1, qstream[FirstRepeat].chrom>>)
        ELSE outcome # "err"

\* C6: with an empty query stream the run returns success and writes
\* nothing, whatever the target stream holds; it reads no target line.
C6_EmptyQueryStream ==
    (qstream = <<>>) =>
        /\ output = <<>>
        /\ tpos = 0
        /\ outcome \in {"running", "ok"}
        /\ (pc # "queries" => pc = "done" /\ outcome = "ok")

\* C6, its case: the run has ended on an empty query stream while the
\* target stream has lines.
C6_Witness ==
    qstream = <<>> /\ tstream # <<>> /\ pc = "done" /\ outcome = "ok"

\* C7: a query that no target of its contig overlaps is written with the
\* placeholder name ".".
C7_NoOverlapPlaceholder ==
    \A n \in 1..Len(output) :
        OverlappingTargets(output[n].chrom,
                           Interval(output[n].start, output[n].end)) = {}
            => output[n].name = "."

\* C7, its case: a query written with "." although its contig has targets,
\* one before it and one after it.
C7_Witness ==
    \E n \in 1..Len(output) :
        LET q == Interval(output[n].start, output[n].end)
        IN  /\ output[n].name = "."
            /\ OverlappingTargets(output[n].chrom, q) = {}
            /\ \E t \in TargetsOfContig(output[n].chrom) : t.interval.end <= q.start
            /\ \E t \in TargetsOfContig(output[n].chrom) : t.interval.start > q.end

\* C8: the target chosen from an overlap list has the least feature-type
\* rank of the list; with a CDS and a gene in the list a CDS is chosen.
C8_FeatureTypeFirst ==
    (pc = "annotate") =>
        \A i \in 1..Len(CurrentOverlaps) :
            LET q == SLKeys(cur_queries)[i]
                L == CurrentOverlaps[i]
            IN  (L # <<>> /\ ~ResolvePanics(q, L)) =>
                    LET chosen == ResolveOne(q, L)[1]
                    IN  /\ \A j \in 1..Len(L) :
                              feature_type_rank(chosen.feature_type)
                                  <= feature_type_rank(L[j].feature_type)
                        /\ (\E j \in 1..Len(L) : L[j].feature_type = "CDS")
                              => chosen.feature_type = "CDS"

\* C8, its case: a gene that is MANE Select and comes first in the list,
\* and a CDS with no other attribute, which is chosen.
C8_Witness ==
    /\ pc = "annotate"
    /\ Len(CurrentOverlaps) = 1
    /\ Len(CurrentOverlaps[1]) = 2
    /\ CurrentOverlaps[1][1].feature_type = "gene"
    /\ from_gff_line(CurrentOverlaps[1][1]).mane
    /\ CurrentOverlaps[1][2].feature_type = "CDS"
    /\ ~ResolvePanics(SLKeys(cur_queries)[1], CurrentOverlaps[1])
    /\ ResolveOne(SLKeys(cur_queries)[1], CurrentOverlaps[1])[1].feature_type = "CDS"

\* a gene with the given level and no tag, transcript_support_level or
\* transcript_type attribute
PlainGeneOfLevel(t, level) ==
    /\ t.feature_type = "gene"
    /\ ~Malformed(t.annotation)
    /\ AttrGet(t.annotation, "level") = Some(level)
    /\ AttrGet(t.annotation, "tag") = None
    /\ AttrGet(t.annotation, "transcript_support_level") = None
    /\ AttrGet(t.annotation, "transcript_type") = None

\* C9: when the targets that overlap a query are two such genes, one of
\* level 1 and one of level 2, the name written is that of the level 1 gene.
C9_LevelOneChosen ==
    \A n \in 1..Len(output) :
        LET q  == Interval(output[n].start, output[n].end)
            ov == OverlappingTargets(output[n].chrom, q)
        IN  \A a \in ov : \A b \in ov :
                (ov = {a, b} /\ PlainGeneOfLevel(a, "1") /\ PlainGeneOfLevel(b, "2"))
                    => output[n].name = NameOf(Some(from_gff_line(a)))

\* C10: when the run has stopped with the out-of-order error, the records
\* written are one per query record, in stream order, of the blocks that
\* lie before the block in which the error was detected.
C10_OutputAtError ==
    (outcome = "err") =>
        [i \in 1..Len(output) |-> Coordinates(output[i])]
            = [i \in 1..BeforeBlock(err[1][1]) |-> Coordinates(qstream[i])]

(* ------------------------------------------------------------------ *)
(* C11 .. C20                                                          *)
(* ------------------------------------------------------------------ *)

\* the targets of the list ts that overlap q, in the order of ts
RECURSIVE Overlappers(_, _)
Overlappers(ts, q) ==
    IF ts = <<>> THEN <<>>
    ELSE (IF overlapping(q, Head(ts).interval) THEN <<Head(ts)>> ELSE <<>>)
             \o Overlappers(Tail(ts), q)

\* the sweep of the current contig with its record of skipped and taken
\* targets
SweepTrace == SweepAll(cur_queries, cur_targets)

\* the lists of a sequence of lists, one after the other
RECURSIVE Flatten(_)
Flatten(ls) == IF ls = <<>> THEN <<>> ELSE Head(ls) \o Flatten(Tail(ls))

\* the elements of a list
Elements(l) == {l[k] : k \in 1..Len(l)}

\* C11: find_overlaps returns one list per query, in query order, and the
\* list of a query holds every target of the contig that overlaps the query,
\* each once and in target order.
C11_SweepComplete ==
    (pc = "annotate") =>
        /\ Len(CurrentOverlaps) = SLLen(cur_queries)
        /\ \A i \in 1..Len(CurrentOverlaps) :
              CurrentOverlaps[i]
                  = Overlappers(SLValues(cur_targets), SLKeys(cur_queries)[i])

\* C12: every target the first loop drops while handling a query ends
\* strictly before the start of the query (so no target that ends at or after
\* the start is dropped) and overlaps neither that query nor a later one.
C12_SkipSafety ==
    (pc = "annotate") =>
        LET skipped == SweepTrace.skipped
            qk      == SLKeys(cur_queries)
        IN  \A i \in 1..Len(skipped) :
                \A k \in 1..Len(skipped[i]) :
                    /\ skipped[i][k].interval.end < qk[i].start
                    /\ \A j \in i..Len(qk) :
                          ~overlapping(qk[j], skipped[i][k].interval)

\* C12, its case: the first loop drops a target for a query that is not the
\* last one of the contig, and keeps a target that ends where a query starts.
C12_Witness ==
    /\ pc = "annotate"
    /\ \E i \in 1..Len(SweepTrace.skipped) :
          /\ SweepTrace.skipped[i] # <<>>
          /\ i < SLLen(cur_queries)
    /\ \E i \in 1..SLLen(cur_queries) : \E k \in 1..Len(cur_targets) :
          /\ cur_targets[k].value.interval.end = SLKeys(cur_queries)[i].start
          /\ \A j \in 1..i :
                cur_targets[k].value \notin Elements(SweepTrace.skipped[j])
          /\ SweepTrace.skipped[i] # <<>>

\* C13: the targets the iterator has yielded are the first `it` targets of
\* the contig, each dropped, taken or held in `trg` once and in target order;
\* a target dropped for a query is in no result list of that query or of a
\* later one.
C13_MonotonicPruning ==
    (pc = "annotate") =>
        LET tr == SweepTrace
        IN  /\ tr.it <= Len(cur_targets)
            /\ Flatten([i \in 1..Len(tr.skipped) |-> tr.skipped[i] \o tr.taken[i]])
                    \o (IF IsSome(tr.trg) THEN <<tr.trg[1]>> ELSE <<>>)
                  = SubSeq(SLValues(cur_targets), 1, tr.it)
            /\ \A i \in 1..Len(tr.skipped) :
                  \A j \in i..Len(tr.result) :
                      Elements(tr.skipped[i]) \cap Elements(tr.result[j]) = {}

\* C13, its case: three queries; targets are dropped for the second one
\* after targets were taken for the first, and the third has a result.
C13_Witness ==
    /\ pc = "annotate"
    /\ Len(SweepTrace.result) >= 3
    /\ SweepTrace.taken[1] # <<>>
    /\ SweepTrace.skipped[2] # <<>>
    /\ SweepTrace.result[3] # <<>>

\* the transcript_support_level attribute of a target line
TslOf(t) == AttrGet(t.annotation, "transcript_support_level")

\* two target lines have the same feature-type rank and the same MANE flag
TiedOnTypeAndMane(q, a, b) ==
    /\ RankKey(q, from_gff_line(a))[1] = RankKey(q, from_gff_line(b))[1]
    /\ RankKey(q, from_gff_line(a))[2] = RankKey(q, from_gff_line(b))[2]

\* C14, as claimed: a target with no transcript_support_level attribute has
\* the TSL rank 255, and in a list in which it ties on feature type and MANE
\* flag with a target whose transcript_support_level is "NA" it is not the
\* one chosen.
C14_AbsentTslRanksWorst ==
    (pc = "annotate") =>
        \A i \in 1..Len(CurrentOverlaps) :
            LET q == SLKeys(cur_queries)[i]
                L == CurrentOverlaps[i]
            IN  ~ResolvePanics(q, L) =>
                    /\ \A j \in 1..Len(L) :
                          TslOf(L[j]) = None => RankKey(q, from_gff_line(L[j]))[3] = 255
                    /\ \A a \in 1..Len(L) : \A b \in 1..Len(L) :
                          (/\ TslOf(L[a]) = Some("NA")
                           /\ TslOf(L[b]) = None
                           /\ TiedOnTypeAndMane(q, L[a], L[b]))
                              => ResolveOne(q, L)[1] # from_gff_line(L[b])

\* C14, amended: a target with no transcript_support_level attribute has the
\* TSL rank of "NA" (5); when it ties on feature type and MANE flag with the
\* only other target of the list, whose transcript_support_level is "NA",
\* and has the lower level, it is the one chosen.
C14_AbsentTslRanksAsNA ==
    (pc = "annotate") =>
        \A i \in 1..Len(CurrentOverlaps) :
            LET q == SLKeys(cur_queries)[i]
                L == CurrentOverlaps[i]
            IN  ~ResolvePanics(q, L) =>
                    /\ \A j \in 1..Len(L) :
                          TslOf(L[j]) = None
                              => RankKey(q, from_gff_line(L[j]))[3] = tsl_rank("NA")
                    /\ \A a \in 1..Len(L) : \A b \in 1..Len(L) :
                          (/\ Len(L) = 2
                           /\ TslOf(L[a]) = Some("NA")
                           /\ TslOf(L[b]) = None
                           /\ TiedOnTypeAndMane(q, L[a], L[b])
                           /\ from_gff_line(L[b]).level < from_gff_line(L[a]).level)
                              => ResolveOne(q, L)[1] = from_gff_line(L[b])

\* C14, its case: a gene with transcript_support_level "NA" and no level,
\* first in the list, and a gene of level 1 with no transcript_support_level,
\* which is chosen.
C14_Witness ==
    /\ pc = "annotate"
    /\ Len(CurrentOverlaps) = 1
    /\ Len(CurrentOverlaps[1]) = 2
    /\ ~ResolvePanics(SLKeys(cur_queries)[1], CurrentOverlaps[1])
    /\ TslOf(CurrentOverlaps[1][1]) = Some("NA")
    /\ AttrGet(CurrentOverlaps[1][1].annotation, "level") = None
    /\ TslOf(CurrentOverlaps[1][2]) = None
    /\ AttrGet(CurrentOverlaps[1][2].annotation, "level") = Some("1")
    /\ CurrentOverlaps[1][1].feature_type = "gene"
    /\ CurrentOverlaps[1][2].feature_type = "gene"
    /\ ResolveOne(SLKeys(cur_queries)[1], CurrentOverlaps[1])[1]
          = from_gff_line(CurrentOverlaps[1][2])

\* the first five rank keys
FirstFive(q, anno) == SubSeq(RankKey(q, anno), 1, 5)

\* the extent as the tie-break is described: from the start of the target
\* to the end of the query when the query starts first, else from the start
\* of the query to the end of the target
OneSidedExtent(q, t) ==
    IF q.start < t.start THEN q.end - t.start ELSE t.end - q.start

\* the position in the list L of the target the tie-break designates: least
\* in the first five keys, then least in extent, then first in the list
Designated(q, L) ==
    LET A     == [j \in 1..Len(L) |-> from_gff_line(L[j])]
        best  == {j \in 1..Len(L) :
                    \A k \in 1..Len(L) : ~KeyLess(FirstFive(q, A[k]), FirstFive(q, A[j]))}
        close == {j \in best :
                    \A k \in best : OneSidedExtent(q, A[j].interval)
                                       <= OneSidedExtent(q, A[k].interval)}
    IN  CHOOSE j \in close : \A k \in close : j <= k

\* C15: among the targets of an overlap list that tie on the first five
\* rank keys the one chosen has the smallest one-sided extent, and the first
\* one in the list of those that tie on the extent as well.
C15_TieBreak ==
    (pc = "annotate") =>
        LET lists == CurrentOverlaps
            qk    == SLKeys(cur_queries)
        IN  \A i \in 1..Len(lists) :
                (lists[i] # <<>> /\ ~ResolvePanics(qk[i], lists[i])) =>
                    ResolveOne(qk[i], lists[i])[1]
                        = from_gff_line(lists[i][Designated(qk[i], lists[i])])

\* C15, its case: two targets that tie on the first five keys; the second
\* of the list has the smaller extent and is chosen.
C15_Witness ==
    /\ pc = "annotate"
    /\ Len(CurrentOverlaps) = 1
    /\ Len(CurrentOverlaps[1]) = 2
    /\ LET q == SLKeys(cur_queries)[1]
           L == CurrentOverlaps[1]
       IN  /\ ~ResolvePanics(q, L)
           /\ FirstFive(q, from_gff_line(L[1])) = FirstFive(q, from_gff_line(L[2]))
           /\ OneSidedExtent(q, L[2].interval) < OneSidedExtent(q, L[1].interval)
           /\ ResolveOne(q, L)[1] = from_gff_line(L[2])
           /\ ResolveOne(q, L)[1] # from_gff_line(L[1])

\* C16: a run that has read a target record whose annotation has a fragment
\* with no key/value separator does not end in success.
C16_MalformedSurfaced ==
    (pc = "done" /\ outcome = "ok") =>
        \A i \in 1..tpos : ~Malformed(tstream[i].annotation)

\* the contigs of the query stream and of the records written
QueryContigs == {qstream[i].chrom : i \in 1..Len(qstream)}

OutputContigs == {output[n].chrom : n \in 1..Len(output)}

\* C17, as claimed: every run ends; a run that ends in success has read the
\* whole query stream and written every query contig; an iteration of the
\* contig loop that goes on to the targets has collected a query; and from
\* the moment the query stream is exhausted no target record is read.
C17_NoTargetReadAfterQueries ==
    /\ <>(pc = "done")
    /\ []((pc = "done" /\ outcome = "ok") =>
            (~QryAvail /\ OutputContigs = QueryContigs))
    /\ [](pc \in {"targets", "annotate"} => SLLen(cur_queries) >= 1)
    /\ [][~QryAvail => tpos' = tpos]_vars

\* C17, amended: the same, except that no target record is read from the
\* moment the query stream is exhausted and no collected query is left to
\* serve; the targets of the last contig are still read after the stream
\* is exhausted.
C17_Terminates ==
    /\ <>(pc = "done")
    /\ []((pc = "done" /\ outcome = "ok") =>
            (~QryAvail /\ OutputContigs = QueryContigs))
    /\ [](pc \in {"targets", "annotate"} => SLLen(cur_queries) >= 1)
    /\ [][(~QryAvail /\ SLLen(cur_queries) = 0) => tpos' = tpos]_vars

\* C17, its case: a run has written its records and ended in success with
\* lines of the target stream read and others still unread.
C17_Witness ==
    /\ pc = "done"
    /\ outcome = "ok"
    /\ output # <<>>
    /\ tpos > 0
    /\ tpos < Len(tstream)

\* C18: a step of the target phase taken while the future buffer has an
\* entry for the current contig makes that entry the target set of the
\* contig and removes it from the buffer, reads no target record, and
\* leaves the lookahead slot and every other entry of the buffer unchanged.
C18_TakeFrame ==
    [][(pc = "targets" /\ Buffered(targets_buffer, cur_contig)) =>
          /\ cur_targets' = targets_buffer[cur_contig]
          /\ ~Buffered(targets_buffer', cur_contig)
          /\ DOMAIN targets_buffer' = DOMAIN targets_buffer \ {cur_contig}
          /\ \A c \in DOMAIN targets_buffer' : targets_buffer'[c] = targets_buffer[c]
          /\ tpos' = tpos
          /\ buf_trg' = buf_trg
          /\ cur_contig' = cur_contig]_vars

\* C18, its case: the targets of the contig being served were taken from
\* the future buffer (its first target is the first line of the stream, read
\* while an earlier contig was served) and another entry is still in the
\* buffer.
C18_Witness ==
    /\ pc = "annotate"
    /\ output # <<>>
    /\ cur_targets # <<>>
    /\ tstream[1].contig = cur_contig
    /\ ~Buffered(targets_buffer, cur_contig)
    /\ DOMAIN targets_buffer # {}

\* the number of places that hold the target record rec: the target set of
\* the current contig, the entries of the future buffer, the lookahead slot
PlacesHolding(rec) ==
    (IF rec \in Elements(SLValues(cur_targets)) THEN 1 ELSE 0)
    + Cardinality({c \in DOMAIN targets_buffer :
                      rec \in Elements(SLValues(targets_buffer[c]))})
    + (IF IsSome(buf_trg) /\ from_line(buf_trg[1].line) = rec THEN 1 ELSE 0)

\* every record held is held under its own contig
HeldUnderOwnContig ==
    /\ \A rec \in Elements(SLValues(cur_targets)) : rec.contig = cur_contig
    /\ \A c \in DOMAIN targets_buffer :
          \A rec \in Elements(SLValues(targets_buffer[c])) : rec.contig = c

\* the record that ends a scan is left in the lookahead slot, and a record
\* in the slot is the one the next step of a scan files, without a read
LookaheadKept ==
    /\ (pc = "targets" /\ pc' = "annotate" /\ tpos' = tpos + 1)
          => buf_trg' = Some([i |-> tpos, line |-> tstream[tpos + 1]])
    /\ (pc = "targets" /\ ~Buffered(targets_buffer, cur_contig) /\ IsSome(buf_trg))
          => LET rec == from_line(buf_trg[1].line)
             IN  /\ tpos' = tpos
                 /\ buf_trg' = None
                 /\ \/ rec \in Elements(SLValues(cur_targets'))
                    \/ /\ Buffered(targets_buffer', rec.contig)
                       /\ rec \in Elements(SLValues(targets_buffer'[rec.contig]))

\* C19, as claimed: at every point of a run every target record read from
\* the stream is held in exactly one place, under its own contig, and the
\* record that ends a scan is kept in the lookahead slot for the next scan.
C19_EveryRecordHeld ==
    /\ [](/\ HeldUnderOwnContig
          /\ \A i \in 1..tpos : PlacesHolding(from_line(tstream[i])) = 1)
    /\ [][LookaheadKept]_vars

\* C19, amended: the same for every record read whose contig has not been
\* written yet; the target set of a contig is dropped when the contig has
\* been written.
C19_RecordsHeldUntilWritten ==
    /\ [](/\ HeldUnderOwnContig
          /\ \A i \in 1..tpos :
                tstream[i].contig \notin OutputContigs
                    => PlacesHolding(from_line(tstream[i])) = 1)
    /\ [][LookaheadKept]_vars

\* C19, its case: records are held in the target set of the contig being
\* served, in the future buffer and in the lookahead slot at once.
C19_Witness ==
    /\ pc = "annotate"
    /\ cur_targets # <<>>
    /\ DOMAIN targets_buffer # {}
    /\ IsSome(buf_trg)
    /\ \A i \in 1..tpos : PlacesHolding(from_line(tstream[i])) = 1

\* C20: for every query and every target of the contig that overlaps it
\* the subtraction of the extent key has a non-negative result.
C20_ExtentNonNegative ==
    (pc = "annotate") =>
        \A i \in 1..SLLen(cur_queries) : \A k \in 1..Len(cur_targets) :
            LET q == SLKeys(cur_queries)[i]
                t == cur_targets[k].value
            IN  (/\ q.start <= q.end
                 /\ t.interval.start <= t.interval.end
                 /\ overlapping(q, t.interval))
                    => Extent(q, t) >= 0

\* C20, its case: the sort key is computed for a list of two targets, one
\* that starts where the query ends and an empty one that starts where the
\* query starts; the extent of both is 0.
C20_Witness ==
    /\ pc = "annotate"
    /\ Len(CurrentOverlaps) = 1
    /\ Len(CurrentOverlaps[1]) = 2
    /\ LET q == SLKeys(cur_queries)[1]
           L == CurrentOverlaps[1]
       IN  /\ ~ResolvePanics(q, L)
           /\ L[1].interval.start = q.start
           /\ L[1].interval.end = q.start
           /\ L[2].interval.start = q.end
           /\ L[2].interval.start < L[2].interval.end
           /\ q.start < q.end
           /\ Extent(q, L[1]) = 0
           /\ Extent(q, L[2]) = 0

====
